---- MODULE Spec2Model ----
(***************************************************************************)
(* A model of rustProxy (mkkelati/rustProxy): the domain matcher, the      *)
(* script registry, the injection engine and the request handler.          *)
(*                                                                         *)
(* Text (domains, patterns, bodies, payloads) is modelled character by     *)
(* character with TLA+ strings: Len, SubSeq and \o are Rust's len, slicing *)
(* and concatenation on ASCII text.                                        *)
(***************************************************************************)
EXTENDS Integers, Sequences, FiniteSets, TLC

\* The methods modelled through `call` take &self and change no state, so a
\* behaviour records one call: every call is made from every state of the registry.
VARIABLES
    scriptsDir,   \* the script files of scripts_dir, in the order read_dir yields them
    scripts,      \* ScriptManager::scripts: name -> InjectionScript
    iterOrder,    \* the order in which the HashMap `scripts` iterates its entries
    call,         \* the last call made of the function under study, with its result
    config,       \* the Config the proxy was started with
    conn          \* per inbound connection: the state of its handle_request task

vars == <<scriptsDir, scripts, iterOrder, call, config, conn>>
registryVars == <<scriptsDir, scripts, iterOrder>>
proxyVars == <<config, conn>>

NoCall == [op |-> "none"]

(***************************************************************************)
(* Bounds                                                                  *)
(***************************************************************************)
\* Number of fragments a generated domain name is made of.
MaxFrags == 3
\* Length of a generated pattern list.
MaxPatterns == 2
\* Number of script files in the scripts directory.
MaxScripts == 3
\* Number of fragments a generated message body is made of.
MaxBodyFrags == 3
\* Number of inbound connections handled concurrently.
MaxConns == 1
\* Number of script files in the scripts directory of a running proxy.
MaxProxyScripts == 1
\* Number of bytes a client sends into an established tunnel.
MaxTunnelBytes == 2
\* Number of generated rules in the registry.
MaxRules == 2
\* Number of fragments a body handed to generated rules is made of.
MaxRuleBodyFrags == 2
\* Number of rule files in the registry a response passes through.
MaxRespondRules == 2
\* Number of connections whose tasks run concurrently.
MaxTasks == 2
\* Number of script files in the scripts directory at a reload.
MaxReloadScripts == 2

None == [some |-> FALSE]
Some(v) == [some |-> TRUE, value |-> v]

Conns == 1..MaxConns

\* a connection on which no request has arrived
IdleConn ==
    [pc |-> "idle", req |-> None, processed |-> None, outcome |-> "none",
     upstream |-> None, response |-> None, log |-> <<>>, attempts |-> 0,
     socket |-> "none", target |-> None, tunnelSent |-> 0, tunnelRelayed |-> 0]

\* Config::default(), the fields the request path reads
DefaultConfig ==
    [security |-> [blacklist_ips |-> {}, whitelist_ips |-> {}],
     scripts  |-> [allowed_domains |-> {"*"}, blocked_domains |-> {}, enabled |-> TRUE]]

\* the proxy part of the state, where no proxy runs
NoProxy == config = DefaultConfig /\ conn = [c \in Conns |-> IdleConn]

(***************************************************************************)
(* str helpers: str::starts_with, str::ends_with, str::contains            *)
(***************************************************************************)
StartsWith(s, p) ==
    /\ Len(p) <= Len(s)
    /\ (Len(p) = 0 \/ SubSeq(s, 1, Len(p)) = p)

EndsWith(s, p) ==
    /\ Len(p) <= Len(s)
    /\ (Len(p) = 0 \/ SubSeq(s, Len(s) - Len(p) + 1, Len(s)) = p)

\* &s[n..]
SliceFrom(s, n) == IF n >= Len(s) THEN "" ELSE SubSeq(s, n + 1, Len(s))

\* whether `pat` occurs in `s` starting at (1-based) position i
OccursAt(s, pat, i) ==
    /\ i >= 1
    /\ i + Len(pat) - 1 <= Len(s)
    /\ (Len(pat) = 0 \/ SubSeq(s, i, i + Len(pat) - 1) = pat)

Contains(s, pat) == \E i \in 1..(Len(s) + 1) : OccursAt(s, pat, i)

\* the positions at which `pat` occurs in `s`
Occurrences(s, pat) == {i \in 1..Len(s) : OccursAt(s, pat, i)}

(***************************************************************************)
(* regex::Regex, for the patterns the model draws: lower-case letters,     *)
(* '.', and '*' in first position only.  Regex::new rejects a pattern that *)
(* starts with the repetition operator; in every other pattern here a      *)
(* letter matches itself and '.' matches any character.  is_match is an    *)
(* unanchored search.                                                      *)
(***************************************************************************)
RegexNewOk(pattern) == ~StartsWith(pattern, "*")

RegexMatchesAt(pattern, text, i) ==
    /\ i + Len(pattern) - 1 <= Len(text)
    /\ \A j \in 1..Len(pattern) :
          \/ SubSeq(pattern, j, j) = "."
          \/ SubSeq(pattern, j, j) = SubSeq(text, i + j - 1, i + j - 1)

RegexIsMatch(pattern, text) ==
    \E i \in 1..(Len(text) + 1) : RegexMatchesAt(pattern, text, i)

(***************************************************************************)
(* ScriptManager::domain_matches                                           *)
(***************************************************************************)
\* one iteration of the loop body: does this pattern return true
PatternMatches(domain, pattern) ==
    \/ pattern = "*"
    \/ pattern = domain
    \/ /\ StartsWith(pattern, "*.")
       /\ EndsWith(domain, SliceFrom(pattern, 2))
    \/ /\ RegexNewOk(pattern)
       /\ RegexIsMatch(pattern, domain)

RECURSIVE domain_matches_from(_, _, _)
domain_matches_from(domain, patterns, k) ==
    IF k > Len(patterns) THEN FALSE
    ELSE IF PatternMatches(domain, patterns[k]) THEN TRUE
    ELSE domain_matches_from(domain, patterns, k + 1)

domain_matches(domain, patterns) == domain_matches_from(domain, patterns, 1)

(***************************************************************************)
(* Inputs of the matcher                                                   *)
(***************************************************************************)
DomainFrags == {"a", ".", "example.com", "evil"}

RECURSIVE Concats(_, _)
Concats(frags, n) ==
    IF n = 0 THEN {""}
    ELSE LET shorter == Concats(frags, n - 1)
         IN  shorter \cup {s \o f : s \in shorter, f \in frags}

Domains == Concats(DomainFrags, MaxFrags) \ {""}

Patterns == {"*", "*.example.com", "example.com", "*.com", "evil", "a.e"}

PatternLists == UNION {[1..n -> Patterns] : n \in 0..MaxPatterns}

(***************************************************************************)
(* Specification of the matcher: each step is one call of domain_matches   *)
(***************************************************************************)
InitMatch ==
    /\ call = NoCall
    /\ scriptsDir = <<>>
    /\ scripts = <<>>
    /\ iterOrder = <<>>
    /\ NoProxy

CallDomainMatches ==
    \E d \in Domains, ps \in PatternLists :
        /\ call = NoCall
        /\ call' = [op |-> "domain_matches", domain |-> d, patterns |-> ps,
                    result |-> domain_matches(d, ps)]
        /\ UNCHANGED <<registryVars, proxyVars>>

NextMatch == CallDomainMatches

SpecMatch == InitMatch /\ [][NextMatch]_vars

(***************************************************************************)
(* C7: domain_matches with the single pattern "*.suffix" is true exactly   *)
(* for the domains that equal "suffix" or end with ".suffix".              *)
(***************************************************************************)
IsPrefixWildcard(p) == StartsWith(p, "*.")

C7_WildcardDotBoundary ==
    (/\ call.op = "domain_matches"
     /\ Len(call.patterns) = 1
     /\ IsPrefixWildcard(call.patterns[1]))
    => LET suffix == SliceFrom(call.patterns[1], 2)
       IN  call.result =
             (\/ call.domain = suffix
              \/ EndsWith(call.domain, "." \o suffix))

(***************************************************************************)
(* InjectionScript and the script registry (ScriptManager)                 *)
(***************************************************************************)
\* InjectType is written as the name of the variant: "Header", "Body",
\* "ResponseHeader", "ResponseBody", "JavaScript", "CSS".
\* An InjectionScript, without its descriptive fields (description, version, author).
Script(name, target_domains, inject_type, script_content, headers, enabled) ==
    [name |-> name, target_domains |-> target_domains, inject_type |-> inject_type,
     script_content |-> script_content, headers |-> headers, enabled |-> enabled]

\* HashMap::new()
EmptyMap == [k \in {} |-> ""]

\* HashMap::insert(key, value)
MapInsert(map, key, value) ==
    [k \in (DOMAIN map) \cup {key} |-> IF k = key THEN value ELSE map[k]]

\* ScriptManager::load_scripts: clear, then insert every script read, under its name
RECURSIVE InsertAll(_, _, _)
InsertAll(map, dir, k) ==
    IF k > Len(dir) THEN map
    ELSE InsertAll(MapInsert(map, dir[k].name, dir[k]), dir, k + 1)

load_scripts(dir) == InsertAll(EmptyMap, dir, 1)

\* The orders in which a HashMap holding the keys `keys` may iterate: the order
\* depends on the map's hash seed (RandomState) and is any permutation.
IterationOrders(keys) ==
    {o \in [1..Cardinality(keys) -> keys] :
        \A i, j \in 1..Cardinality(keys) : i # j => o[i] # o[j]}

\* HashMap::values(), as a sequence
Values(map, order) == [i \in 1..Len(order) |-> map[order[i]]]

\* Iterator::filter(..).collect(), the filter testing `enabled` only
RECURSIVE FilterScriptsAnyDomain(_, _, _)
FilterScriptsAnyDomain(seq, domain, k) ==
    IF k > Len(seq) THEN <<>>
    ELSE IF seq[k].enabled
         THEN <<seq[k]>> \o FilterScriptsAnyDomain(seq, domain, k + 1)
         ELSE FilterScriptsAnyDomain(seq, domain, k + 1)

\* Iterator::filter(..).collect()
RECURSIVE FilterScripts(_, _, _)
FilterScripts(seq, domain, k) ==
    IF k > Len(seq) THEN <<>>
    ELSE IF seq[k].enabled /\ domain_matches(domain, seq[k].target_domains)
         THEN <<seq[k]>> \o FilterScripts(seq, domain, k + 1)
         ELSE FilterScripts(seq, domain, k + 1)

\* ScriptManager::get_scripts_for_domain
get_scripts_for_domain(map, order, domain) ==
    FilterScripts(Values(map, order), domain, 1)

(***************************************************************************)
(* str::replace(from, to): every non-overlapping match, left to right      *)
(***************************************************************************)
RECURSIVE ReplaceFrom(_, _, _, _)
ReplaceFrom(s, from, to, i) ==
    IF i > Len(s) THEN ""
    ELSE IF OccursAt(s, from, i)
         THEN to \o ReplaceFrom(s, from, to, i + Len(from))
         ELSE SubSeq(s, i, i) \o ReplaceFrom(s, from, to, i + 1)

\* str::replacen(from, to, 1): the first match only
RECURSIVE ReplaceFirstFrom(_, _, _, _)
ReplaceFirstFrom(s, from, to, i) ==
    IF i > Len(s) THEN ""
    ELSE IF OccursAt(s, from, i)
         THEN to \o SliceFrom(s, i + Len(from) - 1)
         ELSE SubSeq(s, i, i) \o ReplaceFirstFrom(s, from, to, i + 1)

ReplaceFirst(s, from, to) == ReplaceFirstFrom(s, from, to, 1)

Replace(s, from, to) == ReplaceFrom(s, from, to, 1)

(***************************************************************************)
(* The injection engine                                                    *)
(***************************************************************************)
\* InjectionResult { modified: false, headers: None, body: None, javascript: None, css: None }
NewInjectionResult ==
    [modified |-> FALSE, headers |-> None, body |-> None, javascript |-> None, css |-> None]

\* for (key, value) in &script.headers { headers.insert(key, value) }
\* (the keys of one script are distinct, so their order does not matter)
InsertHeaders(headers, more) ==
    [k \in (DOMAIN headers) \cup (DOMAIN more) |->
        IF k \in DOMAIN more THEN more[k] ELSE headers[k]]

\* the state of one pass: the caller's headers and body, and the result
Pass(headers, body, result) == [headers |-> headers, body |-> body, result |-> result]

\* one iteration of apply_request_injections' loop, a rule of any type inserting
\* its headers and appending its payload
RequestStepAnyType(st, script) ==
    Pass(InsertHeaders(st.headers, script.headers), st.body \o script.script_content,
         [st.result EXCEPT !.modified = TRUE])

\* one iteration of apply_request_injections' loop
RequestStep(st, script) ==
    CASE script.inject_type = "Header" ->
           Pass(InsertHeaders(st.headers, script.headers), st.body,
                [st.result EXCEPT !.modified = @ \/ DOMAIN script.headers # {}])
      [] script.inject_type = "Body" ->
           IF script.script_content # ""
           THEN Pass(st.headers, st.body \o script.script_content,
                     [st.result EXCEPT !.modified = TRUE])
           ELSE st
      [] script.inject_type = "JavaScript" ->
           Pass(st.headers, st.body,
                [st.result EXCEPT !.javascript = Some(script.script_content),
                                  !.modified = TRUE])
      [] script.inject_type = "CSS" ->
           Pass(st.headers, st.body,
                [st.result EXCEPT !.css = Some(script.script_content),
                                  !.modified = TRUE])
      [] OTHER -> st

\* one iteration of apply_response_injections' loop, with a JavaScript or CSS rule
\* appending its element to a body without "</head>"
ResponseStepAppendFallback(st, script) ==
    CASE script.inject_type = "ResponseHeader" ->
           Pass(InsertHeaders(st.headers, script.headers), st.body,
                [st.result EXCEPT !.modified = @ \/ DOMAIN script.headers # {}])
      [] script.inject_type = "ResponseBody" ->
           IF script.script_content # ""
           THEN Pass(st.headers,
                     IF Contains(st.body, "</body>")
                     THEN Replace(st.body, "</body>", script.script_content \o "</body>")
                     ELSE st.body \o script.script_content,
                     [st.result EXCEPT !.modified = TRUE])
           ELSE st
      [] script.inject_type = "JavaScript" ->
           Pass(st.headers,
                IF Contains(st.body, "</head>")
                THEN Replace(st.body, "</head>",
                             ("<script>" \o script.script_content \o "</script>") \o "</head>")
                ELSE st.body \o ("<script>" \o script.script_content \o "</script>"),
                [st.result EXCEPT !.modified = TRUE])
      [] script.inject_type = "CSS" ->
           Pass(st.headers,
                IF Contains(st.body, "</head>")
                THEN Replace(st.body, "</head>",
                             ("<style>" \o script.script_content \o "</style>") \o "</head>")
                ELSE st.body \o ("<style>" \o script.script_content \o "</style>"),
                [st.result EXCEPT !.modified = TRUE])
      [] OTHER -> st

\* one iteration of apply_response_injections' loop
ResponseStep(st, script) ==
    CASE script.inject_type = "ResponseHeader" ->
           Pass(InsertHeaders(st.headers, script.headers), st.body,
                [st.result EXCEPT !.modified = @ \/ DOMAIN script.headers # {}])
      [] script.inject_type = "ResponseBody" ->
           IF script.script_content # ""
           THEN Pass(st.headers,
                     IF Contains(st.body, "</body>")
                     THEN Replace(st.body, "</body>", script.script_content \o "</body>")
                     ELSE st.body \o script.script_content,
                     [st.result EXCEPT !.modified = TRUE])
           ELSE st
      [] script.inject_type = "JavaScript" ->
           IF Contains(st.body, "</head>")
           THEN Pass(st.headers,
                     Replace(st.body, "</head>",
                             ("<script>" \o script.script_content \o "</script>") \o "</head>"),
                     [st.result EXCEPT !.modified = TRUE])
           ELSE st
      [] script.inject_type = "CSS" ->
           IF Contains(st.body, "</head>")
           THEN Pass(st.headers,
                     Replace(st.body, "</head>",
                             ("<style>" \o script.script_content \o "</style>") \o "</head>"),
                     [st.result EXCEPT !.modified = TRUE])
           ELSE st
      [] OTHER -> st

RECURSIVE RequestLoop(_, _, _)
RequestLoop(st, matching, k) ==
    IF k > Len(matching) THEN st
    ELSE RequestLoop(RequestStep(st, matching[k]), matching, k + 1)

RECURSIVE ResponseLoop(_, _, _)
ResponseLoop(st, matching, k) ==
    IF k > Len(matching) THEN st
    ELSE ResponseLoop(ResponseStep(st, matching[k]), matching, k + 1)

\* ScriptManager::apply_request_injections: the headers and body it leaves, and Ok(result)
apply_request_injections(map, order, domain, headers, body) ==
    RequestLoop(Pass(headers, body, NewInjectionResult),
                get_scripts_for_domain(map, order, domain), 1)

\* ScriptManager::apply_response_injections
apply_response_injections(map, order, domain, headers, body) ==
    ResponseLoop(Pass(headers, body, NewInjectionResult),
                 get_scripts_for_domain(map, order, domain), 1)

(***************************************************************************)
(* Inputs of the registry and the engine                                   *)
(***************************************************************************)
\* The script files that may be present, in the lexical order of their names.
ScriptPool ==
    << Script("a-hdr", <<"*.example.com">>, "Header", "",
              ("x-debug" :> "A") @@ ("x-a" :> "1"), TRUE),
       Script("b-hdr", <<"*">>, "Header", "", ("x-debug" :> "B"), TRUE),
       Script("c-body", <<"*">>, "ResponseBody", "Y", EmptyMap, TRUE),
       Script("d-reqbody", <<"*.example.com">>, "Body", "Z", EmptyMap, TRUE),
       Script("e-off", <<"*">>, "ResponseBody", "N", EmptyMap, FALSE),
       Script("f-tail", <<"other.org">>, "ResponseBody", "</body>!", EmptyMap, TRUE) >>

\* the position of a script name in the lexical order of the names
NameRank(name) == CHOOSE i \in 1..Len(ScriptPool) : ScriptPool[i].name = name

\* the members of a set of pool positions, as the sequence of their scripts
RECURSIVE PoolSeq(_)
PoolSeq(S) ==
    IF S = {} THEN <<>>
    ELSE LET m == CHOOSE x \in S : \A y \in S : x <= y
         IN  <<ScriptPool[m]>> \o PoolSeq(S \ {m})

\* The directory listings drawn: read_dir yields the files sorted by name.
ScriptDirs ==
    {PoolSeq(S) : S \in {T \in SUBSET (1..Len(ScriptPool)) : Cardinality(T) <= MaxScripts}}

EngineDomains == {"a.example.com", "other.org", "unknown"}

RequestHeaderMaps == {EmptyMap, ("x-debug" :> "client")}
RequestBodies == {"", "x"}

ResponseHeaderMaps == {("content-type" :> "text/html")}
BodyFrags == {"x", "</body>", "</head>"}
ResponseBodies == Concats(BodyFrags, MaxBodyFrags)

NamesOf(seq) == [i \in 1..Len(seq) |-> seq[i].name]

(***************************************************************************)
(* Specification of the registry and the engine: the state after           *)
(* ScriptManager::new, then calls of its methods                           *)
(***************************************************************************)
InitInject ==
    /\ scriptsDir \in ScriptDirs
    /\ scripts = load_scripts(scriptsDir)
    /\ iterOrder \in IterationOrders(DOMAIN scripts)
    /\ call = NoCall
    /\ NoProxy

CallGetScriptsForDomain ==
    \E d \in EngineDomains :
        /\ call = NoCall
        /\ call' = [op |-> "get_scripts_for_domain", domain |-> d,
                    names |-> NamesOf(get_scripts_for_domain(scripts, iterOrder, d))]
        /\ UNCHANGED <<registryVars, proxyVars>>

CallApplyRequestInjections ==
    \E d \in EngineDomains, h \in RequestHeaderMaps, b \in RequestBodies :
        LET out == apply_request_injections(scripts, iterOrder, d, h, b)
        IN  /\ call = NoCall
            /\ call' = [op |-> "apply_request_injections", domain |-> d,
                        headers |-> h, body |-> b,
                        out_headers |-> out.headers, out_body |-> out.body,
                        result |-> out.result]
            /\ UNCHANGED <<registryVars, proxyVars>>

CallApplyResponseInjections ==
    \E d \in EngineDomains, h \in ResponseHeaderMaps, b \in ResponseBodies :
        LET out == apply_response_injections(scripts, iterOrder, d, h, b)
        IN  /\ call = NoCall
            /\ call' = [op |-> "apply_response_injections", domain |-> d,
                        headers |-> h, body |-> b,
                        out_headers |-> out.headers, out_body |-> out.body,
                        result |-> out.result]
            /\ UNCHANGED <<registryVars, proxyVars>>

NextInject ==
    \/ CallGetScriptsForDomain
    \/ CallApplyRequestInjections
    \/ CallApplyResponseInjections

SpecInject == InitInject /\ [][NextInject]_vars

(***************************************************************************)
(* Vocabulary of the registry claims                                       *)
(***************************************************************************)
\* the rules of the loaded rule set that apply to a domain: enabled, and targeting it
Applicable(domain) ==
    {i \in 1..Len(scriptsDir) :
        scriptsDir[i].enabled /\ domain_matches(domain, scriptsDir[i].target_domains)}

\* the names of a set of positions of scriptsDir, in registration order
RECURSIVE NamesInRegistrationOrder(_)
NamesInRegistrationOrder(S) ==
    IF S = {} THEN <<>>
    ELSE LET m == CHOOSE x \in S : \A y \in S : x <= y
         IN  <<scriptsDir[m].name>> \o NamesInRegistrationOrder(S \ {m})

\* the same names, in the lexical order of the names
RECURSIVE NamesInLexicalOrder(_)
NamesInLexicalOrder(S) ==
    IF S = {} THEN <<>>
    ELSE LET m == CHOOSE x \in S :
                    \A y \in S : NameRank(scriptsDir[x].name) <= NameRank(scriptsDir[y].name)
         IN  <<scriptsDir[m].name>> \o NamesInLexicalOrder(S \ {m})

(***************************************************************************)
(* C8: the sequence of rules get_scripts_for_domain hands to the engine    *)
(* follows a stable order, registration order or lexical order by name,    *)
(* not the iteration order of the backing map.                             *)
(***************************************************************************)
C8_StableRuleOrder ==
    call.op = "get_scripts_for_domain"
    => \/ call.names = NamesInRegistrationOrder(Applicable(call.domain))
       \/ call.names = NamesInLexicalOrder(Applicable(call.domain))

(***************************************************************************)
(* C9: when exactly two applicable Header rules A and B set the same key   *)
(* and A is registered before B, apply_request_injections leaves B's value *)
(* under that key.                                                         *)
(***************************************************************************)
SetsKey(i, key) ==
    /\ scriptsDir[i].inject_type = "Header"
    /\ key \in DOMAIN scriptsDir[i].headers

C9_LaterRuleWins ==
    call.op = "apply_request_injections"
    => \A a, b \in Applicable(call.domain) :
         \A key \in DOMAIN scriptsDir[a].headers :
            (/\ a < b
             /\ SetsKey(a, key)
             /\ SetsKey(b, key)
             /\ \A c \in Applicable(call.domain) : SetsKey(c, key) => c \in {a, b})
            => call.out_headers[key] = scriptsDir[b].headers[key]

(***************************************************************************)
(* C10: with one applicable ResponseBody rule of non-empty payload P (and  *)
(* no other applicable response rule), apply_response_injections leaves    *)
(* the body with P inserted immediately before every "</body>" and nothing *)
(* else changed if the body contains "</body>", the body followed by P     *)
(* otherwise; modified is true.                                            *)
(***************************************************************************)
ResponseTypes == {"ResponseHeader", "ResponseBody", "JavaScript", "CSS"}

ApplicableResponseRules(domain) ==
    {i \in Applicable(domain) : scriptsDir[i].inject_type \in ResponseTypes}

\* `out` is `orig` with `payload` inserted immediately before every occurrence of
\* `anchor`: every character of orig is kept, moved right by one payload per
\* occurrence at or before it, and a payload sits just before each moved anchor
InsertedBeforeEvery(orig, out, anchor, payload) ==
    LET occ == Occurrences(orig, anchor)
        shift(i) == Len(payload) * Cardinality({o \in occ : o <= i})
    IN  /\ Len(out) = Len(orig) + Len(payload) * Cardinality(occ)
        /\ \A i \in 1..Len(orig) :
              SubSeq(out, i + shift(i), i + shift(i)) = SubSeq(orig, i, i)
        /\ \A o \in occ :
              SubSeq(out, o + shift(o) - Len(payload), o + shift(o) - 1) = payload

SoleResponseBodyRule(domain, i) ==
    /\ ApplicableResponseRules(domain) = {i}
    /\ scriptsDir[i].inject_type = "ResponseBody"
    /\ scriptsDir[i].script_content # ""

C10_ResponseBodySplice ==
    call.op = "apply_response_injections"
    => \A i \in 1..Len(scriptsDir) :
          SoleResponseBodyRule(call.domain, i)
          => /\ call.result.modified
             /\ IF Occurrences(call.body, "</body>") # {}
                THEN InsertedBeforeEvery(call.body, call.out_body, "</body>",
                                         scriptsDir[i].script_content)
                ELSE call.out_body = call.body \o scriptsDir[i].script_content

\* a body with two "</body>" anchors went through the sole ResponseBody rule
C10_Witness ==
    /\ call.op = "apply_response_injections"
    /\ \E i \in 1..Len(scriptsDir) : SoleResponseBodyRule(call.domain, i)
    /\ Cardinality(Occurrences(call.body, "</body>")) = 2
    /\ Len(call.out_body) > Len(call.body)

(***************************************************************************)
(* Specification of the engine over generated rules: the registry holds up *)
(* to MaxRules rules, each of any inject type, with or without a payload,  *)
(* enabled or not, targeting the domain of the call or not.                *)
(***************************************************************************)
\* the domain of the messages
RuleDomain == "a.example.com"

\* what a rule does: its inject type with its payload or its headers
RuleKinds ==
    {[inject_type |-> t, script_content |-> "", headers |-> ("x-h" :> "v")] :
        t \in {"Header", "ResponseHeader"}}
    \cup {[inject_type |-> t, script_content |-> p, headers |-> EmptyMap] :
            t \in {"Body", "ResponseBody", "JavaScript", "CSS"}, p \in {"", "P"}}

\* the target_domains drawn: one list that matches RuleDomain, one that does not
RuleTargets == {<<"*.example.com">>, <<"other.org">>}

\* the rule files named "r1", "r2", ... that may stand at position k of the listing
RuleNames == <<"r1", "r2", "r3">>
RulesAt(k) ==
    {Script(RuleNames[k], t, kind.inject_type, kind.script_content, kind.headers, e) :
        kind \in RuleKinds, t \in RuleTargets, e \in BOOLEAN}

\* the listings of exactly n rule files
RECURSIVE RuleDirsOf(_)
RuleDirsOf(n) ==
    IF n = 0 THEN {<<>>}
    ELSE {Append(d, r) : d \in RuleDirsOf(n - 1), r \in RulesAt(n)}

\* the listings of up to n rule files
RuleDirs(n) == UNION {RuleDirsOf(k) : k \in 0..n}

RuleRequestHeaders == ("x-h" :> "client")
RuleRequestBodies == {"", "x"}
RuleResponseHeaders == ("content-type" :> "text/html")
RuleResponseBodies == Concats({"x", "</head>", "</body>"}, MaxRuleBodyFrags)

InitRules ==
    /\ scriptsDir \in RuleDirs(MaxRules)
    /\ scripts = load_scripts(scriptsDir)
    /\ iterOrder \in IterationOrders(DOMAIN scripts)
    /\ call = NoCall
    /\ NoProxy

RuleGetScriptsForDomain ==
    /\ call = NoCall
    /\ call' = [op |-> "get_scripts_for_domain", domain |-> RuleDomain,
                names |-> NamesOf(get_scripts_for_domain(scripts, iterOrder, RuleDomain))]
    /\ UNCHANGED <<registryVars, proxyVars>>

RuleApplyRequestInjections ==
    \E b \in RuleRequestBodies :
        LET out == apply_request_injections(scripts, iterOrder, RuleDomain,
                                            RuleRequestHeaders, b)
        IN  /\ call = NoCall
            /\ call' = [op |-> "apply_request_injections", domain |-> RuleDomain,
                        headers |-> RuleRequestHeaders, body |-> b,
                        out_headers |-> out.headers, out_body |-> out.body,
                        result |-> out.result]
            /\ UNCHANGED <<registryVars, proxyVars>>

RuleApplyResponseInjections ==
    \E b \in RuleResponseBodies :
        LET out == apply_response_injections(scripts, iterOrder, RuleDomain,
                                             RuleResponseHeaders, b)
        IN  /\ call = NoCall
            /\ call' = [op |-> "apply_response_injections", domain |-> RuleDomain,
                        headers |-> RuleResponseHeaders, body |-> b,
                        out_headers |-> out.headers, out_body |-> out.body,
                        result |-> out.result]
            /\ UNCHANGED <<registryVars, proxyVars>>

NextRules ==
    \/ RuleGetScriptsForDomain
    \/ RuleApplyRequestInjections
    \/ RuleApplyResponseInjections

SpecRules == InitRules /\ [][NextRules]_vars

(***************************************************************************)
(* C11: with one applicable JavaScript (resp. CSS) rule and no other       *)
(* applicable response rule, apply_response_injections leaves a body that  *)
(* contains "</head>" with the payload wrapped in <script> (resp. <style>) *)
(* inserted before every "</head>" and modified true; it leaves a body     *)
(* without "</head>", the headers and modified (false) as they were.       *)
(***************************************************************************)
ElementOf(script) ==
    IF script.inject_type = "JavaScript"
    THEN "<script>" \o script.script_content \o "</script>"
    ELSE "<style>" \o script.script_content \o "</style>"

SoleElementRule(domain, i) ==
    /\ ApplicableResponseRules(domain) = {i}
    /\ scriptsDir[i].inject_type \in {"JavaScript", "CSS"}

C11_HeadInjection ==
    call.op = "apply_response_injections"
    => \A i \in 1..Len(scriptsDir) :
          SoleElementRule(call.domain, i)
          => IF Occurrences(call.body, "</head>") # {}
             THEN /\ call.result.modified
                  /\ InsertedBeforeEvery(call.body, call.out_body, "</head>",
                                         ElementOf(scriptsDir[i]))
             ELSE /\ ~call.result.modified
                  /\ call.out_body = call.body
                  /\ call.out_headers = call.headers

\* a body with two "</head>" went through a sole CSS rule
C11_Witness ==
    /\ call.op = "apply_response_injections"
    /\ \E i \in 1..Len(scriptsDir) :
          /\ SoleElementRule(call.domain, i)
          /\ scriptsDir[i].script_content = "P"
          /\ scriptsDir[i].inject_type = "CSS"
          /\ Cardinality(Occurrences(call.body, "</head>")) = 2
          /\ call.out_body = "<style>P</style></head><style>P</style></head>"

(***************************************************************************)
(* C13: a rule that is disabled, or whose target_domains do not match the  *)
(* domain, changes nothing: a pass of apply_request_injections or of       *)
(* apply_response_injections leaves the headers, the body and the result   *)
(* that the pass over the applicable rules alone leaves, and the message   *)
(* untouched with modified false when no rule is applicable.               *)
(***************************************************************************)
\* the rule files of the applicable rules alone, and the order in which a map
\* holding only them iterates
ApplicableDir(domain) ==
    LET Keep(s) == s.enabled /\ domain_matches(domain, s.target_domains)
    IN  SelectSeq(scriptsDir, Keep)

ApplicableOrder(domain) ==
    LET Keep(name) == \E i \in Applicable(domain) : scriptsDir[i].name = name
    IN  SelectSeq(iterOrder, Keep)

C13_InapplicableRulesNoOp ==
    call.op \in {"apply_request_injections", "apply_response_injections"}
    => LET alone == IF call.op = "apply_request_injections"
                    THEN apply_request_injections(load_scripts(ApplicableDir(call.domain)),
                                                  ApplicableOrder(call.domain),
                                                  call.domain, call.headers, call.body)
                    ELSE apply_response_injections(load_scripts(ApplicableDir(call.domain)),
                                                   ApplicableOrder(call.domain),
                                                   call.domain, call.headers, call.body)
       IN  /\ call.out_headers = alone.headers
           /\ call.out_body = alone.body
           /\ call.result = alone.result
           /\ Applicable(call.domain) = {}
              => /\ call.out_headers = call.headers
                 /\ call.out_body = call.body
                 /\ call.result = NewInjectionResult

\* a response went through a registry holding an enabled ResponseBody rule of
\* another domain and a disabled JavaScript rule of this domain, both with a payload
C13_Witness ==
    /\ call.op = "apply_response_injections"
    /\ Len(scriptsDir) = 2
    /\ Applicable(call.domain) = {}
    /\ \E i, j \in 1..2 :
          /\ scriptsDir[i].inject_type = "ResponseBody"
          /\ scriptsDir[i].enabled
          /\ scriptsDir[i].script_content = "P"
          /\ scriptsDir[j].inject_type = "JavaScript"
          /\ ~scriptsDir[j].enabled
          /\ scriptsDir[j].script_content = "P"
          /\ domain_matches(call.domain, scriptsDir[j].target_domains)
    /\ call.body = "</head></body>"
    /\ call.out_body = call.body

(***************************************************************************)
(* C20: an applicable rule of a payload-carrying type (Body, ResponseBody, *)
(* JavaScript, CSS) whose payload is empty is skipped in both directions:  *)
(* where it is the only applicable rule, the pass leaves the headers and   *)
(* the body as they were and modified false.                               *)
(***************************************************************************)
PayloadTypes == {"Body", "ResponseBody", "JavaScript", "CSS"}

SoleEmptyPayloadRule(domain, i) ==
    /\ Applicable(domain) = {i}
    /\ scriptsDir[i].inject_type \in PayloadTypes
    /\ scriptsDir[i].script_content = ""

C20_EmptyPayloadSkipped ==
    call.op \in {"apply_request_injections", "apply_response_injections"}
    => \A i \in 1..Len(scriptsDir) :
          SoleEmptyPayloadRule(call.domain, i)
          => /\ call.out_headers = call.headers
             /\ call.out_body = call.body
             /\ ~call.result.modified

(***************************************************************************)
(* C21: in apply_request_injections an applicable JavaScript or CSS rule   *)
(* only puts its payload in the javascript or css field of the result,     *)
(* leaving the headers and the body as they were, and applicable           *)
(* ResponseHeader and ResponseBody rules change nothing (headers, body,    *)
(* modified); in apply_response_injections applicable Header and Body      *)
(* rules change nothing.  Stated where the rule is the only applicable one.*)
(***************************************************************************)
SoleApplicableRule(domain, i, types) ==
    /\ Applicable(domain) = {i}
    /\ scriptsDir[i].inject_type \in types

C21_OtherDirectionIgnored ==
    \A i \in 1..Len(scriptsDir) :
        /\ (/\ call.op = "apply_request_injections"
            /\ SoleApplicableRule(call.domain, i, {"JavaScript", "CSS"}))
           => /\ call.out_headers = call.headers
              /\ call.out_body = call.body
              /\ call.result.headers = None
              /\ call.result.body = None
              /\ IF scriptsDir[i].inject_type = "JavaScript"
                 THEN /\ call.result.javascript = Some(scriptsDir[i].script_content)
                      /\ call.result.css = None
                 ELSE /\ call.result.css = Some(scriptsDir[i].script_content)
                      /\ call.result.javascript = None
        /\ (\/ /\ call.op = "apply_request_injections"
               /\ SoleApplicableRule(call.domain, i, {"ResponseHeader", "ResponseBody"})
            \/ /\ call.op = "apply_response_injections"
               /\ SoleApplicableRule(call.domain, i, {"Header", "Body"}))
           => /\ call.out_headers = call.headers
              /\ call.out_body = call.body
              /\ call.result = NewInjectionResult

\* a request went through a sole applicable ResponseBody rule with a payload, and
\* came out as it was
C21_Witness ==
    /\ call.op = "apply_request_injections"
    /\ \E i \in 1..Len(scriptsDir) :
          /\ SoleApplicableRule(call.domain, i, {"ResponseBody"})
          /\ scriptsDir[i].script_content = "P"
    /\ call.body = "x"
    /\ call.out_body = "x"
    /\ ~call.result.modified

(***************************************************************************)
(* Config: the policy predicates                                           *)
(***************************************************************************)
\* The fields of Config the request path reads.  A Vec<String> that is only
\* searched (contains, any) is modelled as the set of its entries.
MkConfig(blacklist_ips, whitelist_ips, allowed_domains, blocked_domains, enabled) ==
    [security |-> [blacklist_ips |-> blacklist_ips, whitelist_ips |-> whitelist_ips],
     scripts  |-> [allowed_domains |-> allowed_domains,
                   blocked_domains |-> blocked_domains, enabled |-> enabled]]

\* Config::is_domain_allowed, the allow-list consulted before the block-list
is_domain_allowed_allow_first(cfg, domain) ==
    IF "*" \in cfg.scripts.allowed_domains THEN TRUE
    ELSE IF \E allowed \in cfg.scripts.allowed_domains :
               domain = allowed \/ EndsWith(domain, "." \o allowed)
         THEN TRUE
    ELSE FALSE

\* Config::is_domain_allowed, an allow-list entry matched as a plain suffix
is_domain_allowed_plain_suffix(cfg, domain) ==
    IF domain \in cfg.scripts.blocked_domains THEN FALSE
    ELSE IF "*" \in cfg.scripts.allowed_domains THEN TRUE
    ELSE \E allowed \in cfg.scripts.allowed_domains : EndsWith(domain, allowed)

\* Config::is_domain_allowed
is_domain_allowed(cfg, domain) ==
    IF domain \in cfg.scripts.blocked_domains THEN FALSE
    ELSE IF "*" \in cfg.scripts.allowed_domains THEN TRUE
    ELSE \E allowed \in cfg.scripts.allowed_domains :
            domain = allowed \/ EndsWith(domain, "." \o allowed)

\* Config::is_ip_allowed
is_ip_allowed(cfg, ip) ==
    IF cfg.security.blacklist_ips # {} /\ ip \in cfg.security.blacklist_ips THEN FALSE
    ELSE IF cfg.security.whitelist_ips = {} THEN TRUE
    ELSE ip \in cfg.security.whitelist_ips

(***************************************************************************)
(* Specification of the policy predicates: a Config with any block-lists   *)
(* and allow-lists over a few addresses and domains, then a call           *)
(***************************************************************************)
PolicyIps == {"127.0.0.1", "10.0.0.2"}
PolicyAllowed == {"*", "example.com", "other.org"}
PolicyBlocked == {"a.example.com", "other.org"}
PolicyDomains == {"a.example.com", "example.com", "evilexample.com", "other.org"}

PolicyConfigs ==
    {MkConfig(bl, wl, allowed, blocked, TRUE) :
        bl \in SUBSET PolicyIps, wl \in SUBSET PolicyIps,
        allowed \in SUBSET PolicyAllowed, blocked \in SUBSET PolicyBlocked}

InitPolicy ==
    /\ config \in PolicyConfigs
    /\ scriptsDir = <<>>
    /\ scripts = load_scripts(scriptsDir)
    /\ iterOrder = <<>>
    /\ conn = [c \in Conns |-> IdleConn]
    /\ call = NoCall

CallIsDomainAllowed ==
    \E d \in PolicyDomains :
        /\ call = NoCall
        /\ call' = [op |-> "is_domain_allowed", domain |-> d,
                    result |-> is_domain_allowed(config, d)]
        /\ UNCHANGED <<registryVars, proxyVars>>

CallIsIpAllowed ==
    \E ip \in PolicyIps :
        /\ call = NoCall
        /\ call' = [op |-> "is_ip_allowed", ip |-> ip,
                    result |-> is_ip_allowed(config, ip)]
        /\ UNCHANGED <<registryVars, proxyVars>>

NextPolicy == CallIsDomainAllowed \/ CallIsIpAllowed

SpecPolicy == InitPolicy /\ [][NextPolicy]_vars

(***************************************************************************)
(* C14: is_domain_allowed denies a domain of blocked_domains whatever the  *)
(* allow-list holds, the domain itself and "*" included; is_ip_allowed     *)
(* denies an address of blacklist_ips whatever whitelist_ips holds.        *)
(***************************************************************************)
C14_BlockListWins ==
    /\ (call.op = "is_domain_allowed" /\ call.domain \in config.scripts.blocked_domains)
       => ~call.result
    /\ (call.op = "is_ip_allowed" /\ call.ip \in config.security.blacklist_ips)
       => ~call.result

\* a domain both blocked and allowed by name, with "*" allowed too, was denied
C14_Witness ==
    /\ call.op = "is_domain_allowed"
    /\ call.domain \in config.scripts.blocked_domains
    /\ call.domain \in config.scripts.allowed_domains
    /\ "*" \in config.scripts.allowed_domains
    /\ ~call.result

(***************************************************************************)
(* C23: for a domain that is not in blocked_domains, is_domain_allowed is  *)
(* true if allowed_domains holds "*"; otherwise it is true exactly when    *)
(* the domain is an entry of allowed_domains or ends with "." and an       *)
(* entry ("evilexample.com" is not allowed by "example.com"); an empty     *)
(* allowed_domains denies every domain.                                    *)
(***************************************************************************)
\* `domain` is a subdomain of `entry`: the entry, preceded by a dot, ends it
SubdomainOf(domain, entry) ==
    /\ Len(domain) > Len(entry)
    /\ SubSeq(domain, Len(domain) - Len(entry) + 1, Len(domain)) = entry
    /\ SubSeq(domain, Len(domain) - Len(entry), Len(domain) - Len(entry)) = "."

C23_AllowListMatch ==
    (call.op = "is_domain_allowed" /\ call.domain \notin config.scripts.blocked_domains)
    => /\ "*" \in config.scripts.allowed_domains => call.result
       /\ "*" \notin config.scripts.allowed_domains
          => call.result = (\E entry \in config.scripts.allowed_domains :
                               call.domain = entry \/ SubdomainOf(call.domain, entry))
       /\ config.scripts.allowed_domains = {} => ~call.result

\* "evilexample.com", not blocked, was denied under the allow-list ["example.com"]
C23_Witness ==
    /\ call.op = "is_domain_allowed"
    /\ call.domain = "evilexample.com"
    /\ config.scripts.allowed_domains = {"example.com"}
    /\ config.scripts.blocked_domains = {}
    /\ ~call.result

(***************************************************************************)
(* http::Uri                                                               *)
(***************************************************************************)
\* A request target: scheme, authority and path, "" where the target has none.
Uri(scheme, authority, path) == [scheme |-> scheme, authority |-> authority, path |-> path]

\* str::split(':'), as the sequence of the parts
RECURSIVE SplitFrom(_, _, _)
SplitFrom(s, i, part) ==
    IF i > Len(s) THEN <<part>>
    ELSE IF SubSeq(s, i, i) = ":"
         THEN <<part>> \o SplitFrom(s, i + 1, "")
         ELSE SplitFrom(s, i + 1, part \o SubSeq(s, i, i))

SplitColon(s) == SplitFrom(s, 1, "")

Digits == "0123456789"
IsDigit(c) == \E d \in 1..10 : SubSeq(Digits, d, d) = c
DigitValue(c) == (CHOOSE d \in 1..10 : SubSeq(Digits, d, d) = c) - 1

RECURSIVE DecimalValue(_, _, _)
DecimalValue(s, i, acc) ==
    IF i > Len(s) THEN acc
    ELSE DecimalValue(s, i + 1, 10 * acc + DigitValue(SubSeq(s, i, i)))

\* str::parse::<u16>() on unsigned decimal text: Some(value), or None on an empty
\* string, a non-digit or a value above u16::MAX
ParseU16(s) ==
    IF /\ Len(s) > 0
       /\ \A i \in 1..Len(s) : IsDigit(SubSeq(s, i, i))
       /\ DecimalValue(s, 1, 0) <= 65535
    THEN Some(DecimalValue(s, 1, 0))
    ELSE None

\* Uri::host
UriHost(uri) == IF uri.authority = "" THEN None ELSE Some(SplitColon(uri.authority)[1])

\* Uri::port, as a number
UriPort(uri) ==
    LET parts == SplitColon(uri.authority)
    IN  IF Len(parts) < 2 THEN None ELSE ParseU16(parts[2])

(***************************************************************************)
(* HttpInjector: decoding and encoding headers                             *)
(***************************************************************************)
UpperLetters == "ABCDEFGHIJKLMNOPQRSTUVWXYZ"
LowerLetters == "abcdefghijklmnopqrstuvwxyz"

LowerChar(c) ==
    IF \E i \in 1..26 : SubSeq(UpperLetters, i, i) = c
    THEN LET i == CHOOSE i \in 1..26 : SubSeq(UpperLetters, i, i) = c
         IN  SubSeq(LowerLetters, i, i)
    ELSE c

\* str::to_lowercase (ASCII text)
RECURSIVE ToLowerFrom(_, _)
ToLowerFrom(s, i) ==
    IF i > Len(s) THEN "" ELSE LowerChar(SubSeq(s, i, i)) \o ToLowerFrom(s, i + 1)

ToLowercase(s) == ToLowerFrom(s, 1)

\* the characters of a header name: letters, digits and marks (of the marks
\* HeaderName accepts, the model draws '-', '_' and '.')
HeaderNameMarks == "-_."
IsHeaderNameChar(c) ==
    \/ \E i \in 1..26 : SubSeq(UpperLetters, i, i) = c \/ SubSeq(LowerLetters, i, i) = c
    \/ IsDigit(c)
    \/ \E i \in 1..Len(HeaderNameMarks) : SubSeq(HeaderNameMarks, i, i) = c

\* HeaderName::from_str(name).is_ok()
HeaderNameOk(name) ==
    /\ Len(name) > 0
    /\ \A i \in 1..Len(name) : IsHeaderNameChar(SubSeq(name, i, i))

\* HeaderValue::from_str(value).is_ok(): no control character (the model writes a
\* line feed as "\n")
HeaderValueOk(value) == ~Contains(value, "\n")

\* HeaderValue::to_str(value).is_ok(): visible ASCII only.  The model writes a byte
\* outside ASCII as "\xff" inside a HeaderValue.
ValueToStrOk(value) == ~Contains(value, "\\xff")

\* A HeaderMap is modelled as the sequence of its (name, value) entries.
Header(name, value) == [name |-> name, value |-> value]

\* HttpInjector::headers_to_map
RECURSIVE HeadersToMapFrom(_, _, _)
HeadersToMapFrom(headers, k, map) ==
    IF k > Len(headers) THEN map
    ELSE HeadersToMapFrom(headers, k + 1,
            IF ValueToStrOk(headers[k].value)
            THEN MapInsert(map, ToLowercase(headers[k].name), headers[k].value)
            ELSE map)

headers_to_map(headers) == HeadersToMapFrom(headers, 1, EmptyMap)

\* HeaderMap::insert(name, value): replaces every entry of that name
RECURSIVE WithoutName(_, _, _)
WithoutName(headers, name, k) ==
    IF k > Len(headers) THEN <<>>
    ELSE (IF headers[k].name = name THEN <<>> ELSE <<headers[k]>>)
         \o WithoutName(headers, name, k + 1)

HeaderMapInsert(headers, name, value) ==
    WithoutName(headers, name, 1) \o <<Header(name, value)>>

\* HttpInjector::map_to_headers, leaving out an entry it cannot encode
RECURSIVE MapToHeadersSkipInvalid(_, _, _, _)
MapToHeadersSkipInvalid(map, order, k, headers) ==
    IF k > Len(order) THEN [ok |-> TRUE, headers |-> headers]
    ELSE IF ~HeaderNameOk(order[k]) \/ ~HeaderValueOk(map[order[k]])
         THEN MapToHeadersSkipInvalid(map, order, k + 1, headers)
    ELSE MapToHeadersSkipInvalid(map, order, k + 1,
            HeaderMapInsert(headers, ToLowercase(order[k]), map[order[k]]))

\* HttpInjector::map_to_headers, iterating the map in `order`: Ok(headers) or Err
RECURSIVE MapToHeadersFrom(_, _, _, _)
MapToHeadersFrom(map, order, k, headers) ==
    IF k > Len(order) THEN [ok |-> TRUE, headers |-> headers]
    ELSE IF ~HeaderNameOk(order[k]) THEN [ok |-> FALSE, error |-> "invalid HTTP header name"]
    ELSE IF ~HeaderValueOk(map[order[k]])
         THEN [ok |-> FALSE, error |-> "failed to parse header value"]
    ELSE MapToHeadersFrom(map, order, k + 1,
            HeaderMapInsert(headers, ToLowercase(order[k]), map[order[k]]))

map_to_headers(map, order) == MapToHeadersFrom(map, order, 1, <<>>)

(***************************************************************************)
(* HttpInjector: requests, responses and the two processing passes         *)
(***************************************************************************)
Request(peer, method, uri, headers, body) ==
    [peer |-> peer, method |-> method, uri |-> uri, headers |-> headers, body |-> body]

Response(status, headers, body) == [status |-> status, headers |-> headers, body |-> body]

\* usize::to_string
RECURSIVE DecimalString(_)
DecimalString(n) ==
    IF n < 10 THEN SubSeq(Digits, n + 1, n + 1)
    ELSE DecimalString(n \div 10) \o SubSeq(Digits, (n % 10) + 1, (n % 10) + 1)

\* String::from_utf8_lossy: a byte that is no UTF-8 (written "\xff") becomes
\* U+FFFD (written "\u{FFFD}")
from_utf8_lossy(bytes) == Replace(bytes, "\\xff", "\\u{FFFD}")

\* String::len, in bytes: one per ASCII character, three for U+FFFD, which the
\* model writes with eight characters
ByteLen(s) == Len(s) - 5 * Cardinality(Occurrences(s, "\\u{FFFD}"))

\* HttpInjector::extract_domain
extract_domain(uri) == IF UriHost(uri).some THEN UriHost(uri).value ELSE "unknown"

\* HttpInjector::create_blocked_response (the page, without its style sheet)
create_blocked_response(reason) ==
    LET body == "<h1>Access Blocked</h1><p>This request was blocked by Rusty Proxy.</p>"
                \o "<p>Reason: " \o reason \o "</p>"
    IN  Response(403, <<Header("content-type", "text/html"),
                        Header("content-length", DecimalString(ByteLen(body)))>>, body)

\* HttpInjector::create_error_response (the page, without its style sheet)
create_error_response(error) ==
    LET body == "<h1>Proxy Error</h1><p>An error occurred while processing your request:</p>"
                \o "<p>" \o error \o "</p>"
    IN  Response(500, <<Header("content-type", "text/html"),
                        Header("content-length", DecimalString(ByteLen(body)))>>, body)

BodyMethods == {"POST", "PUT"}

\* HttpInjector::process_request.  body_ok: whether reading the client's body
\* succeeds.  The results: one for each order in which map_to_headers may iterate
\* headers_map.  `injected` tells whether the engine ran.
process_request(cfg, map, order, req, body_ok) ==
    LET domain == extract_domain(req.uri)
    IN  IF ~is_domain_allowed(cfg, domain)
        THEN {[ok |-> TRUE, value |-> req, injected |-> FALSE]}
        ELSE IF req.method \in BodyMethods /\ ~body_ok
        THEN {[ok |-> FALSE, error |-> "error reading a body from connection",
               injected |-> FALSE]}
        ELSE LET headers_map == headers_to_map(req.headers)
                 body_string == IF req.method \in BodyMethods
                                THEN from_utf8_lossy(req.body) ELSE ""
                 inj == IF cfg.scripts.enabled
                        THEN apply_request_injections(map, order, domain,
                                                      headers_map, body_string)
                        ELSE Pass(headers_map, body_string, NewInjectionResult)
             IN  {LET enc == map_to_headers(inj.headers, o)
                  IN  IF enc.ok
                      THEN [ok |-> TRUE,
                            value |-> [req EXCEPT !.headers = enc.headers,
                                                  !.body = inj.body],
                            injected |-> cfg.scripts.enabled]
                      ELSE [ok |-> FALSE, error |-> enc.error,
                            injected |-> cfg.scripts.enabled]
                  : o \in IterationOrders(DOMAIN inj.headers)}

\* HttpInjector::process_response
process_response(cfg, map, order, res, domain, body_ok) ==
    IF ~is_domain_allowed(cfg, domain)
    THEN {[ok |-> TRUE, value |-> res, injected |-> FALSE]}
    ELSE IF ~body_ok
    THEN {[ok |-> FALSE, error |-> "error reading a body from connection",
           injected |-> FALSE]}
    ELSE LET headers_map == headers_to_map(res.headers)
             body_string == from_utf8_lossy(res.body)
             inj == IF cfg.scripts.enabled
                    THEN apply_response_injections(map, order, domain,
                                                   headers_map, body_string)
                    ELSE Pass(headers_map, body_string, NewInjectionResult)
             final_map == IF inj.result.modified
                          THEN MapInsert(inj.headers, "content-length",
                                         DecimalString(ByteLen(inj.body)))
                          ELSE inj.headers
         IN  {LET enc == map_to_headers(final_map, o)
              IN  IF enc.ok
                  THEN [ok |-> TRUE,
                        value |-> Response(res.status, enc.headers, inj.body),
                        injected |-> cfg.scripts.enabled]
                  ELSE [ok |-> FALSE, error |-> enc.error,
                        injected |-> cfg.scripts.enabled]
              : o \in IterationOrders(DOMAIN final_map)}

(***************************************************************************)
(* ProxyServer: one handle_request task per inbound connection.  A task's  *)
(* steps are the stretches of code between two awaits.                     *)
(*                                                                         *)
(* conn[c].log records what the task did: "registry_request" and           *)
(* "registry_response" for a pass of the engine over the registry,         *)
(* "upstream_send" for a request handed to the HTTP client,                *)
(* "upstream_response" for its response, "tcp_connect" for a connection    *)
(* attempt of establish_tunnel.                                            *)
(***************************************************************************)
\* let client_ip = "127.0.0.1": the address checked, whatever the peer's address
client_ip(peer) == "127.0.0.1"

Logged(cn, event) == [cn EXCEPT !.log = Append(@, event)]

\* return Ok(response): the task ends with this response
Respond(cn, response) == [cn EXCEPT !.pc = "done", !.response = Some(response)]

\* the text of a forwarding failure: tokio's Elapsed, hyper's connect error
FailureMessage(kind) ==
    IF kind = "timeout" THEN "deadline has elapsed" ELSE "error trying to connect"

\* handle_request, Err arm of forward_request, retrying instead of answering
forward_failed_retry(cn, kind) == [cn EXCEPT !.pc = "forward_request", !.outcome = kind]

\* handle_request, Err arm of forward_request, going on to process a response
forward_failed_continue(cn, kind) ==
    [cn EXCEPT !.pc = "process_response", !.outcome = kind,
               !.upstream = Some(Response(502, <<>>, ""))]

\* handle_request, Err arm of forward_request
forward_failed(cn, kind) ==
    Respond([cn EXCEPT !.outcome = kind], create_error_response(FailureMessage(kind)))

\* forward_request: the URI the request is sent to; None where
\* uri.authority().unwrap() panics
NormalizeUri(uri) ==
    IF uri.scheme = ""
    THEN IF uri.authority = "" THEN None
         ELSE Some(Uri(IF UriPort(uri) = Some(443) THEN "https" ELSE "http",
                       uri.authority,
                       IF uri.path = "" THEN "/" ELSE uri.path))
    ELSE Some(uri)

\* handle_connect, both arms, answering 200 whatever establish_tunnel returned
tunnel_result_always_ok(cn, connected) == Respond(cn, Response(200, <<>>, ""))

\* handle_connect, handing its reply to the response pass instead of returning it
tunnel_result_through_response(cn, connected) ==
    [cn EXCEPT !.pc = "process_response",
               !.upstream = Some(Response(IF connected THEN 200 ELSE 500, <<>>, ""))]

\* handle_connect: the response for what establish_tunnel returned
tunnel_result(cn, connected) ==
    IF connected
    THEN Respond(cn, Response(200, <<>>, ""))
    ELSE Respond(cn, Response(500, <<>>, "Failed to establish tunnel"))

\* establish_tunnel: (host, port) parsed from host_port, the port None if it does
\* not parse
TunnelTarget(host_port) ==
    LET parts == SplitColon(host_port)
    IN  [host |-> parts[1],
         port |-> ParseU16(IF Len(parts) >= 2 THEN parts[2] ELSE "443")]

(***************************************************************************)
(* Inputs of the proxy                                                     *)
(***************************************************************************)
Configs ==
    { DefaultConfig,
      MkConfig({"127.0.0.1"}, {}, {"*"}, {}, TRUE),
      MkConfig({"127.0.0.2"}, {}, {"*"}, {}, TRUE),
      MkConfig({}, {}, {"other.org"}, {}, TRUE),
      MkConfig({}, {"127.0.0.1"}, {"*"}, {}, FALSE) }

Requests ==
    { Request("127.0.0.1", "GET", Uri("http", "a.example.com", "/"),
              <<Header("host", "a.example.com")>>, ""),
      Request("127.0.0.2", "GET", Uri("", "other.org:80", ""),
              <<Header("host", "other.org")>>, ""),
      Request("127.0.0.1", "GET", Uri("", "other.org:443", ""), <<>>, ""),
      Request("127.0.0.1", "POST", Uri("http", "a.example.com", "/"),
              <<Header("host", "a.example.com"), Header("content-length", "1")>>, "x"),
      Request("127.0.0.1", "GET", Uri("", "", "/"),
              <<Header("host", "a.example.com")>>, ""),
      Request("127.0.0.1", "PATCH", Uri("http", "other.org", "/"),
              <<Header("host", "other.org"), Header("content-length", "1")>>, "x"),
      Request("127.0.0.1", "CONNECT", Uri("", "a.example.com:443", ""), <<>>, ""),
      Request("127.0.0.2", "CONNECT", Uri("", "a.example.com", ""), <<>>, ""),
      Request("127.0.0.1", "CONNECT", Uri("", "a.example.com:99999", ""), <<>>, "") }

UpstreamResponses ==
    { Response(200, <<Header("content-type", "text/html"), Header("content-length", "12")>>,
               "<p>x</p></body>"),
      Response(404, <<>>, "x") }

\* What client.request under the timeout may come to.  The client's HttpConnector
\* refuses an https URI.
UpstreamOutcomes(uri) ==
    IF uri.scheme = "https" THEN {[kind |-> "connect_failed"]}
    ELSE {[kind |-> "timeout"], [kind |-> "connect_failed"]}
         \cup {[kind |-> "response", res |-> r] : r \in UpstreamResponses}

\* rule files whose headers the encoder refuses: a header name with a space, a
\* header value with a line feed
InvalidHeaderRules ==
    { Script("g-badname", <<"*">>, "Header", "", ("bad name" :> "v"), TRUE),
      Script("h-badvalue", <<"*">>, "ResponseHeader", "", ("x-note" :> "a\nb"), TRUE) }

\* the script files a running proxy may hold
ProxyScriptDirs ==
    {PoolSeq(S) : S \in {T \in SUBSET {1, 3, 4} : Cardinality(T) <= MaxProxyScripts}}
    \cup {<<r>> : r \in InvalidHeaderRules}

(***************************************************************************)
(* The steps of a task                                                     *)
(***************************************************************************)
\* hyper hands a request of the connection to handle_request
Accept(c) ==
    \E r \in Requests :
        /\ conn[c].pc = "idle"
        /\ conn' = [conn EXCEPT ![c] = [@ EXCEPT !.pc = "handle_request", !.req = Some(r)]]
        /\ UNCHANGED <<registryVars, call, config>>

\* handle_request, the IP check
IpCheck(c) ==
    /\ conn[c].pc = "handle_request"
    /\ conn' = [conn EXCEPT ![c] =
                  IF ~is_ip_allowed(config, client_ip(conn[c].req.value.peer))
                  THEN Respond(@, create_blocked_response("IP address not allowed"))
                  ELSE [@ EXCEPT !.pc = "process_request"]]
    /\ UNCHANGED <<registryVars, call, config>>

\* handle_request: injector.process_request and the dispatch on the method
ProcessRequest(c) ==
    /\ conn[c].pc = "process_request"
    /\ \E body_ok \in BOOLEAN :
         \E r \in process_request(config, scripts, iterOrder, conn[c].req.value, body_ok) :
            LET cn == IF r.injected THEN Logged(conn[c], "registry_request") ELSE conn[c]
            IN  conn' = [conn EXCEPT ![c] =
                    IF ~r.ok THEN Respond(cn, create_error_response(r.error))
                    ELSE [cn EXCEPT !.processed = Some(r.value),
                                    !.pc = IF r.value.method = "CONNECT"
                                           THEN "handle_connect" ELSE "forward_request"]]
    /\ UNCHANGED <<registryVars, call, config>>

\* forward_request up to the await of client.request (the guard on attempts keeps
\* the counter finite; the task reaches this step once)
ForwardSend(c) ==
    /\ conn[c].pc = "forward_request"
    /\ conn[c].attempts < 2
    /\ LET new_uri == NormalizeUri(conn[c].processed.value.uri)
       IN  conn' = [conn EXCEPT ![c] =
               IF ~new_uri.some THEN [@ EXCEPT !.pc = "panicked"]
               ELSE Logged([@ EXCEPT !.processed.value.uri = new_uri.value,
                                     !.attempts = @ + 1,
                                     !.pc = "awaiting_upstream"],
                           "upstream_send")]
    /\ UNCHANGED <<registryVars, call, config>>

\* the await of client.request under the timeout ends; handle_request's match on it
ForwardOutcome(c) ==
    /\ conn[c].pc = "awaiting_upstream"
    /\ \E o \in UpstreamOutcomes(conn[c].processed.value.uri) :
         conn' = [conn EXCEPT ![c] =
             IF o.kind = "response"
             THEN Logged([@ EXCEPT !.outcome = "response", !.upstream = Some(o.res),
                                   !.pc = "process_response"],
                         "upstream_response")
             ELSE forward_failed(@, o.kind)]
    /\ UNCHANGED <<registryVars, call, config>>

\* handle_request: injector.process_response for the host of the original URI
ProcessResponse(c) ==
    /\ conn[c].pc = "process_response"
    /\ \E body_ok \in BOOLEAN :
         \E r \in process_response(config, scripts, iterOrder, conn[c].upstream.value,
                                   extract_domain(conn[c].req.value.uri), body_ok) :
            LET cn == IF r.injected THEN Logged(conn[c], "registry_response") ELSE conn[c]
            IN  conn' = [conn EXCEPT ![c] =
                    IF r.ok THEN Respond(cn, r.value)
                    ELSE Respond(cn, create_error_response(r.error))]
    /\ UNCHANGED <<registryVars, call, config>>

\* handle_connect and establish_tunnel up to the end of TcpStream::connect
TunnelConnect(c) ==
    /\ conn[c].pc = "handle_connect"
    /\ LET target == TunnelTarget(conn[c].processed.value.uri.authority)
       IN  IF ~target.port.some
           THEN conn' = [conn EXCEPT ![c] = tunnel_result(@, FALSE)]
           ELSE \E connected \in BOOLEAN :
                  conn' = [conn EXCEPT ![c] =
                      IF connected
                      THEN Logged([@ EXCEPT !.target = Some([host |-> target.host,
                                                              port |-> target.port.value]),
                                            !.socket = "open",
                                            !.pc = "tunnel_connected"],
                                  "tcp_connect")
                      ELSE tunnel_result(Logged([@ EXCEPT !.target =
                                                     Some([host |-> target.host,
                                                           port |-> target.port.value]),
                                                   !.socket = "failed"],
                                                "tcp_connect"),
                                         FALSE)]
    /\ UNCHANGED <<registryVars, call, config>>

\* establish_tunnel returns, dropping _stream; handle_connect answers
TunnelReturn(c) ==
    /\ conn[c].pc = "tunnel_connected"
    /\ conn' = [conn EXCEPT ![c] = tunnel_result([@ EXCEPT !.socket = "closed"], TRUE)]
    /\ UNCHANGED <<registryVars, call, config>>

\* The client, told 200, sends a byte for the target.  Nothing bridges the client
\* connection to an upstream connection: no byte is relayed.
ClientTunnelSend(c) ==
    /\ conn[c].pc = "done"
    /\ conn[c].req.value.method = "CONNECT"
    /\ conn[c].response.value.status = 200
    /\ conn[c].tunnelSent < MaxTunnelBytes
    /\ conn' = [conn EXCEPT ![c].tunnelSent = @ + 1]
    /\ UNCHANGED <<registryVars, call, config>>

InitProxy ==
    /\ config \in Configs
    /\ scriptsDir \in ProxyScriptDirs
    /\ scripts = load_scripts(scriptsDir)
    /\ iterOrder \in IterationOrders(DOMAIN scripts)
    /\ conn = [c \in Conns |-> IdleConn]
    /\ call = NoCall

NextProxy ==
    \E c \in Conns :
        \/ Accept(c)
        \/ IpCheck(c)
        \/ ProcessRequest(c)
        \/ ForwardSend(c)
        \/ ForwardOutcome(c)
        \/ ProcessResponse(c)
        \/ TunnelConnect(c)
        \/ TunnelReturn(c)
        \/ ClientTunnelSend(c)

SpecProxy == InitProxy /\ [][NextProxy]_vars

(***************************************************************************)
(* Vocabulary of the request-handling claims                               *)
(***************************************************************************)
Arrived(c) == conn[c].req.some
TaskEnded(c) == conn[c].pc \in {"done", "panicked"}
IsConnect(c) == Arrived(c) /\ conn[c].req.value.method = "CONNECT"
InLog(c, event) == \E i \in 1..Len(conn[c].log) : conn[c].log[i] = event
Count(c, event) == Cardinality({i \in 1..Len(conn[c].log) : conn[c].log[i] = event})

\* every `first` of the log comes before every `second`
Precedes(c, first, second) ==
    \A i, j \in 1..Len(conn[c].log) :
        (conn[c].log[i] = first /\ conn[c].log[j] = second) => i < j

(***************************************************************************)
(* C1: a request whose connecting client's IP the policy denies ends in    *)
(* Blocked: the client gets the 403 blocked page, and neither the registry *)
(* is consulted nor upstream contacted for it.                             *)
(***************************************************************************)
C1_DeniedClientBlocked ==
    \A c \in Conns :
        (Arrived(c) /\ ~is_ip_allowed(config, conn[c].req.value.peer))
        => /\ conn[c].log = <<>>
           /\ conn[c].pc \in {"handle_request", "done"}
           /\ conn[c].pc = "done"
              => /\ conn[c].response.value.status = 403
                 /\ Contains(conn[c].response.value.body, "Access Blocked")

(***************************************************************************)
(* C2: every request, whatever its method and the form of its target,      *)
(* ends with one response to the client; the task never stops without one. *)
(***************************************************************************)
C2_EveryRequestAnswered ==
    \A c \in Conns : TaskEnded(c) => conn[c].response.some

(***************************************************************************)
(* C3: within a request that is no CONNECT, the request pass of the engine *)
(* comes before the request is sent upstream, the upstream response before *)
(* the response pass, and the response pass runs only if forwarding        *)
(* succeeded.                                                              *)
(***************************************************************************)
C3_StageOrder ==
    \A c \in Conns :
        (Arrived(c) /\ ~IsConnect(c))
        => /\ Precedes(c, "registry_request", "upstream_send")
           /\ Precedes(c, "upstream_send", "upstream_response")
           /\ Precedes(c, "upstream_response", "registry_response")
           /\ Count(c, "registry_request") <= 1
           /\ Count(c, "registry_response") <= 1
           /\ InLog(c, "upstream_response") => InLog(c, "upstream_send")
           /\ conn[c].pc = "process_response" => InLog(c, "upstream_response")
           /\ InLog(c, "registry_response")
              => InLog(c, "upstream_response") /\ conn[c].outcome = "response"

\* a request went through all four stages
C3_Witness ==
    \E c \in Conns :
        /\ ~IsConnect(c)
        /\ conn[c].pc = "done"
        /\ conn[c].log = <<"registry_request", "upstream_send",
                           "upstream_response", "registry_response">>

(***************************************************************************)
(* C4: when forwarding times out or the upstream connection fails, the     *)
(* task ends at once with a 500 error page carrying the failure's message, *)
(* and upstream is contacted at most once per request.                     *)
(***************************************************************************)
C4_ForwardFailureIs500 ==
    \A c \in Conns :
        /\ conn[c].attempts <= 1
        /\ Count(c, "upstream_send") <= 1
        /\ conn[c].outcome \in {"timeout", "connect_failed"}
           => /\ conn[c].pc = "done"
              /\ conn[c].response.some
              /\ conn[c].response.value.status = 500
              /\ Contains(conn[c].response.value.body, "Proxy Error")
              /\ conn[c].outcome = "timeout"
                 => Contains(conn[c].response.value.body, "deadline has elapsed")
              /\ conn[c].outcome = "connect_failed"
                 => Contains(conn[c].response.value.body, "error trying to connect")

\* a forwarded request timed out and was answered
C4_Witness ==
    \E c \in Conns :
        /\ conn[c].outcome = "timeout"
        /\ conn[c].attempts = 1
        /\ conn[c].pc = "done"
        /\ conn[c].response.value.status = 500

(***************************************************************************)
(* C5: for a CONNECT request, if the TCP connection to host:port (443      *)
(* when the target names no port) succeeds the client gets 200 with an     *)
(* empty body before any byte is relayed; if it fails the client gets      *)
(* another status and no upstream socket stays open.                       *)
(***************************************************************************)
C5_ConnectReply ==
    \A c \in Conns :
        IsConnect(c)
        => /\ (conn[c].target.some
               /\ ~Contains(conn[c].processed.value.uri.authority, ":"))
              => conn[c].target.value.port = 443
           /\ conn[c].pc # "done" => conn[c].tunnelRelayed = 0 /\ conn[c].tunnelSent = 0
           /\ (conn[c].pc = "done" /\ conn[c].socket = "closed")
              => /\ conn[c].response.value.status = 200
                 /\ conn[c].response.value.body = ""
           /\ (conn[c].pc = "done" /\ conn[c].socket = "failed")
              => conn[c].response.value.status # 200
           /\ conn[c].pc = "done" => conn[c].socket # "open"

\* a CONNECT without a port was connected on 443 and answered 200
C5_Witness ==
    \E c \in Conns :
        /\ IsConnect(c)
        /\ conn[c].pc = "done"
        /\ conn[c].socket = "closed"
        /\ conn[c].target.value.port = 443
        /\ ~Contains(conn[c].processed.value.uri.authority, ":")
        /\ conn[c].response.value.status = 200

(***************************************************************************)
(* C6: after a CONNECT answered 200 the upstream connection stays open and *)
(* every byte the client sends is relayed to the upstream (no endpoint     *)
(* closes in this model).                                                  *)
(***************************************************************************)
C6_TunnelBridged ==
    \A c \in Conns :
        (IsConnect(c) /\ conn[c].pc = "done" /\ conn[c].response.value.status = 200)
        => /\ conn[c].socket = "open"
           /\ conn[c].tunnelRelayed = conn[c].tunnelSent

(***************************************************************************)
(* C15: a request whose target domain is_domain_allowed denies is answered *)
(* with the 403 blocked page, as a request of a denied address is.         *)
(***************************************************************************)
C15_DeniedDomainBlocked ==
    \A c \in Conns :
        (/\ Arrived(c)
         /\ conn[c].pc = "done"
         /\ ~is_domain_allowed(config, extract_domain(conn[c].req.value.uri)))
        => /\ conn[c].response.value.status = 403
           /\ ~InLog(c, "upstream_send")
           /\ ~InLog(c, "tcp_connect")

(***************************************************************************)
(* C16: when an applicable rule leaves a header whose name or value is no  *)
(* valid HTTP header, encoding fails and the client gets the 500 error     *)
(* page: the message is never delivered without the header; a request is   *)
(* not sent upstream and no tunnel is opened.                              *)
(***************************************************************************)
\* rule i of the rule set is an applicable rule of this type with such a header
LeavesInvalidHeader(domain, i, type) ==
    /\ i \in Applicable(domain)
    /\ scriptsDir[i].inject_type = type
    /\ \E key \in DOMAIN scriptsDir[i].headers :
          ~HeaderNameOk(key) \/ ~HeaderValueOk(scriptsDir[i].headers[key])

IsErrorPage(response) == response.status = 500 /\ Contains(response.body, "Proxy Error")

C16_InvalidHeaderIs500 ==
    \A c \in Conns :
        Arrived(c)
        => LET domain == extract_domain(conn[c].req.value.uri)
           IN  /\ (/\ InLog(c, "registry_request")
                   /\ \E i \in 1..Len(scriptsDir) : LeavesInvalidHeader(domain, i, "Header"))
                  => /\ conn[c].pc = "done"
                     /\ IsErrorPage(conn[c].response.value)
                     /\ conn[c].log = <<"registry_request">>
               /\ (/\ InLog(c, "registry_response")
                   /\ \E i \in 1..Len(scriptsDir) :
                         LeavesInvalidHeader(domain, i, "ResponseHeader"))
                  => /\ conn[c].pc = "done"
                     /\ IsErrorPage(conn[c].response.value)

\* a request met a Header rule with an invalid header name and was answered 500
\* without being sent upstream
C16_Witness ==
    \E c \in Conns :
        /\ Arrived(c)
        /\ \E i \in 1..Len(scriptsDir) :
              LeavesInvalidHeader(extract_domain(conn[c].req.value.uri), i, "Header")
        /\ conn[c].req.value.method = "GET"
        /\ conn[c].log = <<"registry_request">>
        /\ conn[c].pc = "done"
        /\ conn[c].response.value.status = 500

(***************************************************************************)
(* C22: on the CONNECT path the response pass of the engine never runs:    *)
(* the reply to a CONNECT request, 200 or failure, is made without         *)
(* consulting the registry in the response direction, no upstream response *)
(* is read, and no rule changes a byte of the tunnel.                      *)
(***************************************************************************)
C22_NoInjectionOnConnect ==
    \A c \in Conns :
        IsConnect(c)
        => /\ ~InLog(c, "registry_response")
           /\ ~InLog(c, "upstream_response")
           /\ conn[c].pc # "process_response"
           /\ conn[c].tunnelRelayed <= conn[c].tunnelSent
           /\ (conn[c].pc = "done" /\ InLog(c, "tcp_connect"))
              => conn[c].response.value
                   \in {Response(200, <<>>, ""),
                        Response(500, <<>>, "Failed to establish tunnel")}

\* a CONNECT was answered 200 with an empty body while a ResponseBody rule that
\* applies to its host was loaded
C22_Witness ==
    \E c \in Conns :
        /\ IsConnect(c)
        /\ conn[c].pc = "done"
        /\ conn[c].log = <<"registry_request", "tcp_connect">>
        /\ conn[c].response.value = Response(200, <<>>, "")
        /\ \E i \in Applicable(extract_domain(conn[c].req.value.uri)) :
              scriptsDir[i].inject_type = "ResponseBody"

(***************************************************************************)
(* Specification of the response path: process_response applied to an      *)
(* upstream response, and handle_request's answer to the client            *)
(***************************************************************************)
\* handle_request, the match on process_response: the response the client gets
ResponseSent(r) == IF r.ok THEN r.value ELSE create_error_response(r.error)

\* the domain of the request the responses answer
RespondDomain == "a.example.com"

\* the rule files a response may meet, in the lexical order of their names
RespondPool ==
    << Script("body", <<"*">>, "ResponseBody", "Y", EmptyMap, TRUE),
       Script("js", <<"*.example.com">>, "JavaScript", "J", EmptyMap, TRUE),
       Script("len-hdr", <<"*">>, "ResponseHeader", "", ("Content-Length" :> "5"), TRUE),
       Script("tag-hdr", <<"*">>, "ResponseHeader", "", ("X-Tag" :> "t"), TRUE) >>

RECURSIVE RespondSeq(_)
RespondSeq(S) ==
    IF S = {} THEN <<>>
    ELSE LET m == CHOOSE x \in S : \A y \in S : x <= y
         IN  <<RespondPool[m]>> \o RespondSeq(S \ {m})

RespondDirs ==
    {RespondSeq(S) :
        S \in {T \in SUBSET (1..Len(RespondPool)) : Cardinality(T) <= MaxRespondRules}}

RespondConfigs ==
    { DefaultConfig,
      MkConfig({}, {}, {"*"}, {}, FALSE),
      MkConfig({}, {}, {"other.org"}, {}, TRUE) }

\* Upstream responses, as hyper hands them over: a content-length header, where
\* there is one, is the number of bytes of the body ("\xff" is one byte).
RespondUpstream ==
    { Response(200, <<Header("content-type", "text/html"), Header("content-length", "15")>>,
               "<p>x</p></body>"),
      Response(200, <<Header("content-length", "13")>>, "<head></head>"),
      Response(200, <<Header("content-length", "2")>>, "a\\xff"),
      Response(200, <<Header("x-tag", "orig"), Header("content-length", "1")>>, "x"),
      Response(200, <<Header("set-cookie", "a=1"), Header("set-cookie", "b=2"),
                      Header("content-length", "1")>>, "x"),
      Response(404, <<>>, "x") }

InitRespond ==
    /\ config \in RespondConfigs
    /\ scriptsDir \in RespondDirs
    /\ scripts = load_scripts(scriptsDir)
    /\ iterOrder \in IterationOrders(DOMAIN scripts)
    /\ conn = [c \in Conns |-> IdleConn]
    /\ call = NoCall

CallProcessResponse ==
    \E res \in RespondUpstream, body_ok \in BOOLEAN :
        \E r \in process_response(config, scripts, iterOrder, res, RespondDomain, body_ok) :
            /\ call = NoCall
            /\ call' = [op |-> "process_response", domain |-> RespondDomain,
                        upstream |-> res, result |-> r, sent |-> ResponseSent(r)]
            /\ UNCHANGED <<registryVars, proxyVars>>

NextRespond == CallProcessResponse

SpecRespond == InitRespond /\ [][NextRespond]_vars

(***************************************************************************)
(* Vocabulary of the response-path claims                                  *)
(***************************************************************************)
\* the values a message carries under a header name
HeaderValues(headers, name) ==
    {headers[k].value : k \in {j \in 1..Len(headers) : headers[j].name = name}}

\* rule i of the rule set changes the body of a response of this domain whose
\* decoded body is `body` (no payload drawn holds an anchor)
ChangesBody(domain, i, body) ==
    /\ i \in Applicable(domain)
    /\ \/ scriptsDir[i].inject_type = "ResponseBody" /\ scriptsDir[i].script_content # ""
       \/ /\ scriptsDir[i].inject_type \in {"JavaScript", "CSS"}
          /\ Contains(body, "</head>")

\* the engine ran over the response of the recorded call
EngineRan == call.op = "process_response" /\ call.result.injected

(***************************************************************************)
(* C12: after a body-modifying response rule fired, the response sent to   *)
(* the client carries one content-length header, whose value is the number *)
(* of bytes of the body sent, whatever content-length the upstream         *)
(* response or a header rule supplied.                                     *)
(***************************************************************************)
C12_ContentLengthIsByteLength ==
    (/\ EngineRan
     /\ \E i \in 1..Len(scriptsDir) :
           ChangesBody(call.domain, i, from_utf8_lossy(call.upstream.body)))
    => HeaderValues(call.sent.headers, "content-length")
         = {DecimalString(ByteLen(call.sent.body))}

(***************************************************************************)
(* C19: when no rule changed the body of a response (only ResponseHeader   *)
(* rules fired, or none), the response sent to the client carries the      *)
(* content-length header of the upstream response, and none if the         *)
(* upstream response had none.                                             *)
(***************************************************************************)
C19_ContentLengthUntouched ==
    (/\ call.op = "process_response"
     /\ call.result.ok
     /\ \A i \in 1..Len(scriptsDir) :
           ~ChangesBody(call.domain, i, from_utf8_lossy(call.upstream.body)))
    => HeaderValues(call.sent.headers, "content-length")
         = HeaderValues(call.upstream.headers, "content-length")

(***************************************************************************)
(* C24: header keys are case-insensitive across injection and encoding.    *)
(* When an applicable ResponseHeader rule sets a key K and the upstream    *)
(* response has a header whose name differs from K in letter case only,    *)
(* the response sent has one header of that name, with the rule's value,   *)
(* whatever the iteration order of the maps.  (Stated for a name other     *)
(* than content-length, which process_response sets itself, and for a key  *)
(* no second rule sets.)                                                   *)
(***************************************************************************)
\* rule i is an applicable ResponseHeader rule setting `key`, the only rule that
\* sets a key of that name
SoleRuleSetting(domain, i, key) ==
    /\ i \in Applicable(domain)
    /\ scriptsDir[i].inject_type = "ResponseHeader"
    /\ key \in DOMAIN scriptsDir[i].headers
    /\ \A j \in Applicable(domain) \ {i} :
          \A other \in DOMAIN scriptsDir[j].headers :
             ToLowercase(other) # ToLowercase(key)

C24_HeaderKeysCaseInsensitive ==
    (EngineRan /\ call.result.ok)
    => \A i \in 1..Len(scriptsDir) :
          \A key \in DOMAIN scriptsDir[i].headers :
             (/\ SoleRuleSetting(call.domain, i, key)
              /\ ToLowercase(key) # "content-length"
              /\ \E k \in 1..Len(call.upstream.headers) :
                    /\ call.upstream.headers[k].name # key
                    /\ ToLowercase(call.upstream.headers[k].name) = ToLowercase(key))
             => HeaderValues(call.sent.headers, ToLowercase(key))
                  = {scriptsDir[i].headers[key]}

(***************************************************************************)
(* C27: header pass-through.  When no rule applies or scripts are          *)
(* disabled, every header of the upstream response whose value is text is  *)
(* in the response sent with the same value, each value of a name that     *)
(* occurs several times included.                                          *)
(***************************************************************************)
C27_HeaderPassThrough ==
    (/\ call.op = "process_response"
     /\ call.result.ok
     /\ Applicable(call.domain) = {} \/ ~config.scripts.enabled)
    => \A k \in 1..Len(call.upstream.headers) :
          ValueToStrOk(call.upstream.headers[k].value)
          => call.upstream.headers[k].value
               \in HeaderValues(call.sent.headers,
                                ToLowercase(call.upstream.headers[k].name))

(***************************************************************************)
(* Specification of concurrent tasks: MaxTasks connections, the steps of   *)
(* their handle_request tasks interleaved in any order                     *)
(***************************************************************************)
Tasks == 1..MaxTasks

\* the configurations, rule files and requests the concurrent tasks are run with
TaskConfigs == {DefaultConfig, MkConfig({}, {}, {"other.org"}, {}, TRUE)}
TaskScriptDirs == {PoolSeq({}), PoolSeq({3})} \cup {<<r>> : r \in InvalidHeaderRules}
TaskRequests ==
    { Request("127.0.0.1", "GET", Uri("http", "a.example.com", "/"),
              <<Header("host", "a.example.com")>>, ""),
      Request("127.0.0.1", "POST", Uri("http", "a.example.com", "/"),
              <<Header("host", "a.example.com"), Header("content-length", "1")>>, "x"),
      Request("127.0.0.1", "GET", Uri("", "", "/"),
              <<Header("host", "a.example.com")>>, ""),
      Request("127.0.0.1", "CONNECT", Uri("", "a.example.com:443", ""), <<>>, "") }

InitTasks ==
    /\ config \in TaskConfigs
    /\ scriptsDir \in TaskScriptDirs
    /\ scripts = load_scripts(scriptsDir)
    /\ iterOrder \in IterationOrders(DOMAIN scripts)
    /\ conn = [c \in Tasks |-> IdleConn]
    /\ call = NoCall

\* a request arrives, and is stored in every connection that waits for one
AcceptShared(c) ==
    \E r \in TaskRequests :
        /\ conn[c].pc = "idle"
        /\ conn' = [d \in DOMAIN conn |->
                      IF conn[d].pc = "idle"
                      THEN [conn[d] EXCEPT !.pc = "handle_request", !.req = Some(r)]
                      ELSE conn[d]]
        /\ UNCHANGED <<registryVars, call, config>>

\* hyper hands a request of connection c to a handle_request task of its own
TaskAccept(c) ==
    \E r \in TaskRequests :
        /\ conn[c].pc = "idle"
        /\ conn' = [conn EXCEPT ![c] = [@ EXCEPT !.pc = "handle_request", !.req = Some(r)]]
        /\ UNCHANGED <<registryVars, call, config>>

NextTasks ==
    \E c \in Tasks :
        \/ TaskAccept(c)
        \/ IpCheck(c)
        \/ ProcessRequest(c)
        \/ ForwardSend(c)
        \/ ForwardOutcome(c)
        \/ ProcessResponse(c)
        \/ TunnelConnect(c)
        \/ TunnelReturn(c)
        \/ ClientTunnelSend(c)

SpecTasks == InitTasks /\ [][NextTasks]_vars

\* handle_request run from its call to its return with nothing else going on may
\* give this answer (None: the task panics)
AnswersAlone(cfg, map, order, req, answer) ==
    IF ~is_ip_allowed(cfg, client_ip(req.peer))
    THEN answer = Some(create_blocked_response("IP address not allowed"))
    ELSE \E req_ok \in BOOLEAN :
           \E r \in process_request(cfg, map, order, req, req_ok) :
              IF ~r.ok THEN answer = Some(create_error_response(r.error))
              ELSE IF r.value.method = "CONNECT"
              THEN IF TunnelTarget(r.value.uri.authority).port.some
                   THEN \E ok \in BOOLEAN : answer = tunnel_result(IdleConn, ok).response
                   ELSE answer = tunnel_result(IdleConn, FALSE).response
              ELSE IF ~NormalizeUri(r.value.uri).some THEN answer = None
              ELSE \E o \in UpstreamOutcomes(NormalizeUri(r.value.uri).value) :
                     IF o.kind # "response"
                     THEN answer = forward_failed(IdleConn, o.kind).response
                     ELSE \E res_ok \in BOOLEAN :
                            \E s \in process_response(cfg, map, order, o.res,
                                                      extract_domain(req.uri), res_ok) :
                               answer = Some(ResponseSent(s))

(***************************************************************************)
(* C18: connections are independent.  Every step changes the record        *)
(* (message, progress, answer) of one task only and leaves the shared      *)
(* configuration and registry as they are; and whatever the interleaving   *)
(* and whatever happens to its siblings, a task ends with an answer that   *)
(* handle_request gives to its request when run alone.                     *)
(***************************************************************************)
OwnRecordOnly ==
    /\ \E c \in Tasks : \A d \in Tasks \ {c} : conn'[d] = conn[d]
    /\ UNCHANGED <<config, registryVars>>

AnsweredAsAlone ==
    \A c \in Tasks :
        TaskEnded(c)
        => AnswersAlone(config, scripts, iterOrder, conn[c].req.value, conn[c].response)

C18_TasksIndependent == []AnsweredAsAlone /\ [][OwnRecordOnly]_vars

\* one task ended with the 500 error page of a forwarding failure, its sibling,
\* having started before that, with the injected upstream response
C18_Witness ==
    \E c, d \in Tasks :
        /\ c # d
        /\ conn[c].pc = "done"
        /\ conn[c].outcome = "timeout"
        /\ conn[c].response.value.status = 500
        /\ conn[d].pc = "done"
        /\ conn[d].log = <<"registry_request", "upstream_send",
                           "upstream_response", "registry_response">>
        /\ conn[d].response.value.status = 200

(***************************************************************************)
(* Specification of a reload: a ScriptManager as new() leaves it, then a   *)
(* call of load_scripts over what the directory now holds, then a reader   *)
(***************************************************************************)
\* the listings of the scripts directory, before and at the reload
ReloadDirs ==
    {PoolSeq(S) : S \in {T \in SUBSET {1, 2, 3} : Cardinality(T) <= MaxReloadScripts}}

\* How load_scripts may end over a listing: Ok, or Err with n entries read, where
\* fs::read_dir fails (n = 0) or the directory iterator fails at an entry.
LoadOutcomes(dir) ==
    {[ok |-> TRUE, read |-> Len(dir)]}
    \cup {[ok |-> FALSE, read |-> n] : n \in 0..(IF Len(dir) = 0 THEN 0 ELSE Len(dir) - 1)}

\* ScriptManager::scripts when load_scripts returns: cleared, then holding the
\* entries read
ScriptsAfterLoad(dir, outcome) == InsertAll(EmptyMap, SubSeq(dir, 1, outcome.read), 1)

InitReload ==
    /\ scriptsDir \in ReloadDirs
    /\ scripts = load_scripts(scriptsDir)
    /\ iterOrder \in IterationOrders(DOMAIN scripts)
    /\ call = NoCall
    /\ NoProxy

\* ScriptManager::load_scripts, from its call to its return (&mut self: no reader
\* runs meanwhile)
LoadScripts ==
    \E dir \in ReloadDirs :
        \E outcome \in LoadOutcomes(dir) :
            /\ call = NoCall
            /\ scriptsDir' = dir
            /\ scripts' = ScriptsAfterLoad(dir, outcome)
            /\ iterOrder' \in IterationOrders(DOMAIN scripts')
            /\ call' = [op |-> "load_scripts", ok |-> outcome.ok,
                        previous |-> scripts, new |-> load_scripts(dir)]
            /\ UNCHANGED proxyVars

\* ScriptManager::list_scripts, after the reload
ListScripts ==
    /\ call.op = "load_scripts"
    /\ call' = [op |-> "list_scripts", names |-> iterOrder, reload_ok |-> call.ok,
                previous |-> call.previous, new |-> call.new]
    /\ UNCHANGED <<registryVars, proxyVars>>

\* ScriptManager::get_scripts_for_domain, after the reload
ReloadGetScriptsForDomain ==
    \E d \in EngineDomains :
        /\ call.op = "load_scripts"
        /\ call' = [op |-> "get_scripts_after_load", domain |-> d,
                    names |-> NamesOf(get_scripts_for_domain(scripts, iterOrder, d)),
                    reload_ok |-> call.ok, previous |-> call.previous, new |-> call.new]
        /\ UNCHANGED <<registryVars, proxyVars>>

NextReload == LoadScripts \/ ListScripts \/ ReloadGetScriptsForDomain

SpecReload == InitReload /\ [][NextReload]_vars

(***************************************************************************)
(* C17: a reload is atomic.  During and after load_scripts, one that fails *)
(* part-way included, a reader (list_scripts, get_scripts_for_domain) sees *)
(* the complete previous rule set or the complete new one, never an empty  *)
(* or partly populated registry.                                           *)
(***************************************************************************)
\* the names in a sequence of names
Range(seq) == {seq[i] : i \in 1..Len(seq)}

\* the names of the rules of a registry that get_scripts_for_domain selects
NamesFor(map, domain) ==
    {name \in DOMAIN map :
        map[name].enabled /\ domain_matches(domain, map[name].target_domains)}

C17_ReloadAtomic ==
    /\ call.op = "list_scripts"
       => Range(call.names) \in {DOMAIN call.previous, DOMAIN call.new}
    /\ call.op = "get_scripts_after_load"
       => Range(call.names) \in {NamesFor(call.previous, call.domain),
                                 NamesFor(call.new, call.domain)}

(***************************************************************************)
(* Vocabulary of the request-path claims                                   *)
(***************************************************************************)
\* an applicable Body rule with a payload changes the body of the request of task
\* c, which the engine ran over
RequestBodyChanged(c) ==
    /\ InLog(c, "registry_request")
    /\ \E i \in Applicable(extract_domain(conn[c].req.value.uri)) :
          scriptsDir[i].inject_type = "Body" /\ scriptsDir[i].script_content # ""

\* the request of task c was handed to the HTTP client
SentUpstream(c) == Arrived(c) /\ InLog(c, "upstream_send")

(***************************************************************************)
(* C25: whenever request injection changes the body of a request (a Body   *)
(* rule appends its payload), the request sent upstream carries a          *)
(* content-length header equal to the number of bytes of the body sent,    *)
(* never the length of the original body.  (A request handed over without  *)
(* the header gets it from the HTTP client, which writes the length of the *)
(* body it is given; the header handed over is what can be stale.)         *)
(***************************************************************************)
C25_RequestContentLength ==
    \A c \in Conns :
        (SentUpstream(c) /\ RequestBodyChanged(c))
        => HeaderValues(conn[c].processed.value.headers, "content-length")
             \subseteq {DecimalString(ByteLen(conn[c].processed.value.body))}

(***************************************************************************)
(* C26: for every method, when no rule changes the body of a request, the  *)
(* body sent upstream is the body the client sent; a non-empty body is     *)
(* never replaced by an empty one.                                         *)
(***************************************************************************)
C26_RequestBodyPassThrough ==
    \A c \in Conns :
        (SentUpstream(c) /\ ~RequestBodyChanged(c))
        => conn[c].processed.value.body = conn[c].req.value.body
====
